---- MODULE Spec2Model ----
(***************************************************************************)
(* dashboard.py: perform_analytics_and_visualize(file_path).              *)
(*                                                                         *)
(* One straight-line handler: read a CSV into the working table            *)
(* df_transactions, normalise the header, parse the dates, then compute    *)
(* eighteen aggregates one after the other, handing each to the            *)
(* presentation layer (streamlit) as soon as it is computed.               *)
(*                                                                         *)
(* Modelling conventions                                                   *)
(*  - A column name is a sequence of one-character strings, so that the    *)
(*    header normalisation of line 24 is computed character by character.  *)
(*  - A row of the working table is a tuple of cells in file column order; *)
(*    a cell is reached through the position of its column name in         *)
(*    df_columns, as df['name'] does.                                      *)
(*  - A missing text cell is the string NaN (read_csv reads the text       *)
(*    "NaN" as missing); a nullable number is <<>> (missing) or <<n>>.     *)
(*  - Purchase amounts are integers.  A float64 result that need not be an *)
(*    integer (mean, percentage, growth, CLV) is [kind, n, d, x100]: kind  *)
(*    is "num", "inf", "-inf" or "nan", the IEEE outcomes of a zero        *)
(*    divisor kept apart; a "num" is the double the code computes, the     *)
(*    float division n / d followed by x100 float multiplications by 100.  *)
(*    Series.round(2) works on that double, bit by bit (Float64, FlMul100, *)
(*    Rint), since the double nearest to a decimal tie is not the tie.     *)
(*  - The python locals that hold results are the function `locals`, from  *)
(*    the local's name to its value; a name outside DOMAIN locals is not   *)
(*    bound yet.                                                           *)
(*  - Four things the source leaves to the installed libraries are         *)
(*    nondeterministic: the default of groupby(observed=) (False in        *)
(*    pandas 2.x, True in pandas 3) is the variable `observed`, fixed for  *)
(*    a run; whether sns.barplot raises on a frame without rows (seaborn   *)
(*    up to 0.12) or draws nothing is the variable                         *)
(*    `barplot_rejects_empty`, fixed for a run; the order sort_values      *)
(*    (kind='quicksort', not stable) leaves equal keys in is any order,    *)
(*    chosen at each sort; and whether ax.pie                              *)
(*    rejects wedge sizes that are not finite or are all zero before it    *)
(*    draws (a matplotlib that validates them) or fails only at a wedge    *)
(*    that starts at a nan angle, chosen at the one call of ax.pie.        *)
(***************************************************************************)
EXTENDS Naturals, Integers, Sequences, FiniteSets, TLC

VARIABLES
    pc,            \* position in perform_analytics_and_visualize
    file_exists,   \* whether file_path names a file
    observed,      \* the installed pandas' default for groupby(observed=)
    barplot_rejects_empty,
                   \* whether the installed seaborn's barplot raises on no rows
    df_columns,    \* df_transactions.columns
    df_dtypes,     \* df_transactions.dtypes, by column position
    df_rows,       \* df_transactions' rows, each a tuple of cells
    locals,        \* the results bound so far: name -> value
    emitted        \* the calls made on the presentation layer, in order

vars ==
    <<pc, file_exists, observed, barplot_rejects_empty, df_columns, df_dtypes, df_rows,
      locals, emitted>>

(***************************************************************************)
(* Bounds of the model.                                                    *)
(***************************************************************************)
MaxRows == 2

MaxAgeRows == 1

MaxShareRows == 3

(***************************************************************************)
(* Values.                                                                 *)
(***************************************************************************)
NaN == "NaN"

Null == <<>>

Some(x) == <<x>>

IsNull(o) == Len(o) = 0

Abs(x) == IF x < 0 THEN -x ELSE x

RECURSIVE Gcd(_, _)
Gcd(a, b) == IF b = 0 THEN a ELSE Gcd(b, a % b)

NaNf == [kind |-> "nan", n |-> 0, d |-> 1, x100 |-> 0]

Inf == [kind |-> "inf", n |-> 0, d |-> 1, x100 |-> 0]

NegInf == [kind |-> "-inf", n |-> 0, d |-> 1, x100 |-> 0]

\* The float n / d for d # 0: the double nearest to the quotient, named by
\* the quotient in lowest terms with a positive denominator.
Num(n, d) ==
    LET g == Gcd(Abs(n), Abs(d))
        s == IF d < 0 THEN -1 ELSE 1
    IN  [kind |-> "num", n |-> (s * n) \div g, d |-> (s * d) \div g, x100 |-> 0]

\* numpy's float division n / d: x/0 is +-inf, 0/0 is nan, no exception.
Div(n, d) ==
    IF d # 0 THEN Num(n, d)
    ELSE IF n > 0 THEN Inf
    ELSE IF n < 0 THEN NegInf
    ELSE NaNf

\* a < b on floats that are not nan and were not multiplied (x100 = 0):
\* quotients of integers below 2^26 that differ are different doubles,
\* in the same order.
RatLess(a, b) ==
    IF a.kind = "-inf" THEN b.kind # "-inf"
    ELSE IF a.kind = "inf" THEN FALSE
    ELSE IF b.kind = "inf" THEN TRUE
    ELSE IF b.kind = "-inf" THEN FALSE
    ELSE a.n * b.d < b.n * a.d

(***************************************************************************)
(* float64 arithmetic.  A positive double is [m, e]: m its 53 significand  *)
(* bits, most significant (a 1) first, and e the binary exponent of the    *)
(* last of them, so that its value is m * 2^e.                             *)
(***************************************************************************)
MantissaBits == 53

\* The bits of the natural n below 2^30, most significant first; none for 0.
NatBits(n) ==
    LET len == CHOOSE l \in 0..30 : n < 2^l /\ (l = 0 \/ n >= 2^(l - 1))
    IN  [i \in 1..len |-> (n \div 2^(len - i)) % 2]

RECURSIVE BitsNat(_)
\* The natural whose bits are b.
BitsNat(b) ==
    IF Len(b) = 0 THEN 0
    ELSE IF Len(b) = 1 THEN b[1]
    ELSE LET h == Len(b) \div 2
         IN  BitsNat(SubSeq(b, 1, h)) * 2^(Len(b) - h)
             + BitsNat(SubSeq(b, h + 1, Len(b)))

Zeros(n) == [i \in 1..n |-> 0]

\* The bits of the base-256 digits ds, eight for each.
DigitsBits(ds) ==
    [i \in 1..(8 * Len(ds)) |-> (ds[(i - 1) \div 8 + 1] \div 2^(7 - ((i - 1) % 8))) % 2]

\* The base-256 digits of the bits b.
BitsDigits(b) ==
    LET n == (Len(b) + 7) \div 8
        padded == Zeros(8 * n - Len(b)) \o b
    IN  [k \in 1..n |-> BitsNat(SubSeq(padded, 8 * k - 7, 8 * k))]

\* b without its leading zeros.
Strip(b) ==
    IF \A i \in 1..Len(b) : b[i] = 0 THEN <<>>
    ELSE LET first == CHOOSE i \in 1..Len(b) :
                          b[i] = 1 /\ \A j \in 1..(i - 1) : b[j] = 0
         IN  SubSeq(b, first, Len(b))

\* b + 1 on the bits b, which are not all 1.
AddOne(b) ==
    LET last == CHOOSE i \in 1..Len(b) :
                    b[i] = 0 /\ \A j \in (i + 1)..Len(b) : b[j] = 1
    IN  [i \in 1..Len(b) |-> IF i < last THEN b[i] ELSE IF i = last THEN 1 ELSE 0]

\* Round to nearest, ties to even: the double nearest to b * 2^e + r, for
\* bits b that start with a 1 and a remainder r below 2^e that is not 0
\* exactly when rest.
RoundBits(b, e, rest) ==
    IF Len(b) <= MantissaBits
    THEN [m |-> b \o Zeros(MantissaBits - Len(b)), e |-> e - (MantissaBits - Len(b))]
    ELSE LET keep == SubSeq(b, 1, MantissaBits)
             e2 == e + Len(b) - MantissaBits
             sticky == rest \/ \E i \in (MantissaBits + 2)..Len(b) : b[i] = 1
             up == b[MantissaBits + 1] = 1 /\ (sticky \/ keep[MantissaBits] = 1)
         IN  IF ~up THEN [m |-> keep, e |-> e2]
             ELSE IF \A i \in 1..MantissaBits : keep[i] = 1
             THEN [m |-> <<1>> \o Zeros(MantissaBits - 1), e |-> e2 + 1]
             ELSE [m |-> AddOne(keep), e |-> e2]

RECURSIVE LongDivision(_, _, _, _)
\* The base-256 digits behind the point of a quotient by q (below 2^23)
\* with integer part ip, continued after the digits ds with remainder rem
\* until the quotient has more than MantissaBits significant bits.
LongDivision(ip, ds, rem, q) ==
    IF Len(Strip(NatBits(ip) \o DigitsBits(ds))) > MantissaBits
    THEN [ds |-> ds, rem |-> rem]
    ELSE LongDivision(ip, Append(ds, (rem * 256) \div q), (rem * 256) % q, q)

\* The float division p / q of positive integers.
FlDiv(p, q) ==
    LET r == LongDivision(p \div q, <<>>, p % q, q)
    IN  RoundBits(Strip(NatBits(p \div q) \o DigitsBits(r.ds)), -8 * Len(r.ds), r.rem # 0)

RECURSIVE MulSmall(_, _, _)
\* The base-256 digits of ds * c + carry, for c up to 256.
MulSmall(ds, c, carry) ==
    IF Len(ds) = 0 THEN IF carry = 0 THEN <<>> ELSE <<carry>>
    ELSE LET t == ds[Len(ds)] * c + carry
         IN  Append(MulSmall(SubSeq(ds, 1, Len(ds) - 1), c, t \div 256), t % 256)

\* The float multiplication x * 100.
FlMul100(x) ==
    RoundBits(Strip(DigitsBits(MulSmall(BitsDigits(x.m), 100, 0))), x.e, FALSE)

RECURSIVE FlMul100s(_, _)
FlMul100s(x, times) == IF times = 0 THEN x ELSE FlMul100s(FlMul100(x), times - 1)

\* The double of a "num" above 0.
Float64(x) == FlMul100s(FlDiv(x.n, x.d), x.x100)

\* numpy's rint of a double below 2^30: the nearest integer, ties to even.
Rint(x) ==
    LET i == MantissaBits + x.e
    IN  IF i < 0 THEN 0
        ELSE IF i >= MantissaBits THEN BitsNat(x.m) * 2^x.e
        ELSE LET q == BitsNat(SubSeq(x.m, 1, i))
                 sticky == \E j \in (i + 2)..MantissaBits : x.m[j] = 1
             IN  IF x.m[i + 1] = 0 THEN q
                 ELSE IF sticky THEN q + 1
                 ELSE IF q % 2 = 0 THEN q ELSE q + 1

\* Series.round(2) of a float, numpy's rint(x * 100) / 100: nan and inf
\* stay, a number goes to the hundredth its double times 100 is nearest to.
Round2(x) ==
    IF x.kind # "num" THEN x
    ELSE IF x.n = 0 THEN Num(0, 1)
    ELSE LET a == [x EXCEPT !.n = Abs(x.n)]
             k == Rint(FlMul100(Float64(a)))
         IN  Num(IF x.n < 0 THEN -k ELSE k, 100)

\* A float that is a whole number of hundredths, in hundredths.
Hundredths(x) == x.n * (100 \div x.d)

RECURSIVE SumSeq(_)
SumSeq(s) == IF s = <<>> THEN 0 ELSE Head(s) + SumSeq(Tail(s))

RECURSIVE SelectIdx(_, _, _)
\* The positions lo..Len(flags) whose flag is TRUE, ascending, after acc.
SelectIdx(flags, lo, acc) ==
    IF lo > Len(flags) THEN acc
    ELSE SelectIdx(flags, lo + 1, IF flags[lo] THEN Append(acc, lo) ELSE acc)

\* s restricted to the positions whose flag is TRUE, order kept.
Filter(s, flags) ==
    LET idx == SelectIdx(flags, 1, <<>>)
    IN  [k \in 1..Len(idx) |-> s[idx[k]]]

Range(s) == {s[i] : i \in 1..Len(s)}

(***************************************************************************)
(* Text order.  Python compares strings by code point; the texts of the    *)
(* model, in that order.                                                   *)
(***************************************************************************)
Lexicon ==
    <<"A", "B", "Books", "C", "D", "DE", "E", "F", "FR", "G", "IT", "JP", "Toys",
      "UK", "US", "alice", "bob", "card", "cash">>

StrRank(s) == CHOOSE i \in 1..Len(Lexicon) : Lexicon[i] = s

RECURSIVE SortedTexts(_)
\* sorted(S) for a set of texts.
SortedTexts(S) ==
    IF S = {} THEN <<>>
    ELSE LET m == CHOOSE x \in S : \A y \in S : StrRank(x) <= StrRank(y)
         IN  <<m>> \o SortedTexts(S \ {m})

(***************************************************************************)
(* Calendar.  A Timestamp is [year, month, day].                           *)
(***************************************************************************)
IsLeap(y) == (y % 4 = 0 /\ y % 100 # 0) \/ y % 400 = 0

DaysInMonth(y, m) ==
    IF m = 2 THEN (IF IsLeap(y) THEN 29 ELSE 28)
    ELSE IF m \in {4, 6, 9, 11} THEN 30 ELSE 31

DateLess(a, b) ==
    \/ a.year < b.year
    \/ a.year = b.year /\ a.month < b.month
    \/ a.year = b.year /\ a.month = b.month /\ a.day < b.day

NextDay(t) ==
    IF t.day < DaysInMonth(t.year, t.month)
        THEN [t EXCEPT !.day = t.day + 1]
    ELSE IF t.month < 12
        THEN [year |-> t.year, month |-> t.month + 1, day |-> 1]
    ELSE [year |-> t.year + 1, month |-> 1, day |-> 1]

\* The label resample('ME') gives the bin of t: the month's last day.
MonthEnd(t) == [t EXCEPT !.day = DaysInMonth(t.year, t.month)]

NextMonthEnd(t) == MonthEnd(NextDay(t))

MinDate(S) == CHOOSE x \in S : \A y \in S : ~DateLess(y, x)

MaxDate(S) == CHOOSE x \in S : \A y \in S : ~DateLess(x, y)

(***************************************************************************)
(* Column names (line 24 onwards the code reaches every column by these).  *)
(***************************************************************************)
Transaction_Date ==
    <<"T", "r", "a", "n", "s", "a", "c", "t", "i", "o", "n", "_", "D", "a", "t", "e">>

Purchase_Amount ==
    <<"P", "u", "r", "c", "h", "a", "s", "e", "_", "A", "m", "o", "u", "n", "t">>

Product_Category ==
    <<"P", "r", "o", "d", "u", "c", "t", "_", "C", "a", "t", "e", "g", "o", "r", "y">>

Country == <<"C", "o", "u", "n", "t", "r", "y">>

User_Name == <<"U", "s", "e", "r", "_", "N", "a", "m", "e">>

Age == <<"A", "g", "e">>

Payment_Method ==
    <<"P", "a", "y", "m", "e", "n", "t", "_", "M", "e", "t", "h", "o", "d">>

Age_Group == <<"A", "g", "e", "_", "G", "r", "o", "u", "p">>

RECURSIVE Replace(_, _, _)
\* str.replace(old, new) for a one-character old; new is a name (possibly
\* empty).
Replace(name, old, new) ==
    IF name = <<>> THEN <<>>
    ELSE (IF Head(name) = old THEN new ELSE <<Head(name)>>)
         \o Replace(Tail(name), old, new)

\* col.replace(' ', '_').replace('(', '').replace(')', '').replace('-', '_')
NormalizeName(col) ==
    Replace(Replace(Replace(Replace(col, " ", <<"_">>), "(", <<>>), ")", <<>>),
            "-", <<"_">>)

\* The position of column `name` in `cols` (df[name]).
ColIndex(cols, name) == CHOOSE i \in 1..Len(cols) : cols[i] = name

\* df[name] as the sequence of its cells.
Column(cols, rows, name) ==
    LET c == ColIndex(cols, name)
    IN  [i \in 1..Len(rows) |-> rows[i][c]]

(***************************************************************************)
(* The files the model reads.  A file is a header and rows of cells:       *)
(* date text as <<year, month, day>>, amount, category, country, user,     *)
(* age, payment method.                                                    *)
(***************************************************************************)
Headers ==
    { <<Transaction_Date, Purchase_Amount, Product_Category, Country,
        User_Name, Age, Payment_Method>>,
      << <<"T", "r", "a", "n", "s", "a", "c", "t", "i", "o", "n", " ", "D", "a", "t", "e">>,
         <<"P", "u", "r", "c", "h", "a", "s", "e", "-", "A", "m", "o", "u", "n", "t">>,
         <<"P", "r", "o", "d", "u", "c", "t", " ", "C", "a", "t", "e", "g", "o", "r", "y">>,
         <<"C", "o", "u", "n", "t", "r", "y">>,
         <<"U", "s", "e", "r", " ", "N", "a", "m", "e">>,
         <<"(", "A", "g", "e", ")">>,
         <<"P", "a", "y", "m", "e", "n", "t", "-", "M", "e", "t", "h", "o", "d">> >> }

\* Tables of 1..n rows drawn from the row set R.
RECURSIVE TablesUpTo(_, _)
TablesUpTo(R, n) ==
    IF n = 0 THEN {}
    ELSE LET shorter == TablesUpTo(R, n - 1)
         IN  {<<r>> : r \in R} \cup shorter
             \cup {Append(t, r) : t \in {u \in shorter : Len(u) = n - 1}, r \in R}

Jan05 == <<2024, 1, 5>>

\* Rows that differ in category and amount.
CategoryRows ==
    {<<Jan05, a, c, "US", "alice", Some(25), "card">> :
        a \in {50, 100}, c \in {"Toys", "Books", NaN}}

\* Rows that differ in country and amount.
CountryRows ==
    {<<Jan05, a, "Books", c, "alice", Some(25), "card">> :
        a \in {0, 100}, c \in {"US", "UK", NaN}}

\* Rows of 100 that differ in country only.
ShareRows ==
    {<<Jan05, 100, "Books", c, "alice", Some(25), "card">> : c \in {"US", "UK", "DE"}}

\* Rows whose shares fall on a decimal tie: 23 of 4000 is 0.575 percent.
TieRows ==
    {<<Jan05, a, "Books", c, "alice", Some(25), "card">> :
        a \in {23, 3977}, c \in {"US", "UK"}}

\* Rows that differ in customer, country and amount.
CustomerRows ==
    {<<Jan05, a, "Books", c, u, Some(25), "card">> :
        a \in {0, 100}, c \in {"US", "UK"}, u \in {"alice", NaN}}

\* Rows that differ in date (one of them no calendar date) and amount.
DateRows ==
    {<<d, a, "Books", "US", "alice", Some(25), "card">> :
        a \in {0, 100},
        d \in {<<2024, 1, 31>>, <<2024, 2, 29>>, <<2024, 3, 1>>}}
    \cup {<<<<2024, 2, 30>>, 100, "Books", "US", "alice", Some(25), "card">>}

\* Rows that differ in age.
AgeRows ==
    {<<Jan05, 100, "Books", "US", "alice", g, "card">> :
        g \in {Null} \cup {Some(x) : x \in {-1, 0, 19, 20, 29, 30, 39, 40, 49, 50, 51}}}

\* Rows that differ in payment method, customer and amount.
PaymentRows ==
    {<<Jan05, a, "Books", "US", u, Some(25), p>> :
        a \in {100}, u \in {"bob", "alice"}, p \in {"cash", "card", NaN}}

CatalogueRow(category) == <<Jan05, 100, category, "US", "alice", Some(25), "card">>

\* n rows r.
Times(n, r) == [i \in 1..n |-> r]

\* One country with five categories of 5, 4, 3, 2 and 1 rows of 100.
Catalogue ==
    Times(5, CatalogueRow("F")) \o Times(4, CatalogueRow("E"))
    \o Times(3, CatalogueRow("D")) \o Times(2, CatalogueRow("C"))
    \o Times(1, CatalogueRow("B"))

\* Rows that add a sixth or seventh category, in either country.
CatalogueRows ==
    {<<Jan05, a, c, k, "alice", Some(25), "card">> :
        a \in {100}, c \in {"A", "G"}, k \in {"US", "DE"}}

AtlasRow(amount, category, country) ==
    <<Jan05, amount, category, country, "alice", Some(25), "card">>

\* Six countries, more than the five nlargest keeps, with equal revenues
\* among them and two categories of equal revenue, the rows in neither
\* name order.
Atlas ==
    <<AtlasRow(100, "Toys", "IT"), AtlasRow(100, "Toys", "FR"),
      AtlasRow(100, "Books", "DE"), AtlasRow(200, "Books", "UK"),
      AtlasRow(200, "Books", "JP"), AtlasRow(300, "Toys", "US")>>

\* Rows that move a country of the atlas to another revenue.
AtlasRows == {AtlasRow(100, "Books", c) : c \in {"IT", "DE"}}

Tables ==
    TablesUpTo(CategoryRows, MaxRows)
    \cup TablesUpTo(CountryRows, MaxRows)
    \cup TablesUpTo(ShareRows, MaxShareRows)
    \cup TablesUpTo(TieRows, MaxRows)
    \cup TablesUpTo(CustomerRows, MaxRows)
    \cup TablesUpTo(DateRows, MaxRows)
    \cup TablesUpTo(AgeRows, MaxAgeRows)
    \cup TablesUpTo(PaymentRows, MaxRows)
    \cup {Catalogue}
    \cup {Catalogue \o t : t \in TablesUpTo(CatalogueRows, MaxRows)}
    \cup {t \o Catalogue : t \in TablesUpTo(CatalogueRows, MaxRows)}
    \cup {Atlas}
    \cup {Atlas \o t : t \in TablesUpTo(AtlasRows, MaxRows)}
    \cup {t \o Atlas : t \in TablesUpTo(AtlasRows, MaxRows)}

(***************************************************************************)
(* pandas operations, as the code uses them.  A two-column result table    *)
(* (a Series after reset_index) is a sequence of [key, val].               *)
(***************************************************************************)
Take(s, n) == SubSeq(s, 1, IF n < Len(s) THEN n ELSE Len(s))

\* Series.sum() of integer cells.
Sum(vals) == SumSeq(vals)

\* Series.mean(): nan for no values.
Mean(vals) == IF Len(vals) = 0 THEN NaNf ELSE Num(SumSeq(vals), Len(vals))

\* The group keys of groupby(col) with sort=True, dropna=True: the distinct
\* non-missing values, ascending.
GroupKeys(keys) == SortedTexts(Range(keys) \ {NaN})

\* The cells of vals in the rows whose key is k.
GroupCells(keys, vals, k) == Filter(vals, [i \in 1..Len(keys) |-> keys[i] = k])

\* df.groupby(key)[val].sum(): one row per group key, in key order; a row
\* whose key is missing belongs to no group.
GroupBySum(keys, vals) ==
    LET ks == GroupKeys(keys)
    IN  [j \in 1..Len(ks) |->
            [key |-> ks[j], val |-> SumSeq(GroupCells(keys, vals, ks[j]))]]

\* Series.value_counts() before its sort: one row per distinct non-missing
\* value with the number of its rows.
CountByKey(keys) ==
    LET ks == GroupKeys(keys)
    IN  [j \in 1..Len(ks) |->
            [key |-> ks[j], val |-> Cardinality({i \in 1..Len(keys) : keys[i] = ks[j]})]]

RECURSIVE DescOrders(_, _)
\* Every arrangement of the rows of s at the positions I with val
\* non-increasing.
DescOrders(s, I) ==
    IF I = {} THEN {<<>>}
    ELSE LET top == {i \in I : \A j \in I : s[j].val <= s[i].val}
         IN  UNION {{<<s[i]>> \o t : t \in DescOrders(s, I \ {i})} : i \in top}

\* Mutant of SortValuesDesc: the sort left out, the table in key order.
SortValuesMissing(s) == {s}

\* Series.sort_values(ascending=False) with the default kind='quicksort':
\* descending by value; the relative order of equal values is whatever the
\* installed numpy's argsort leaves, so every order of them is an outcome.
SortValuesDesc(s) == DescOrders(s, 1..Len(s))

RECURSIVE StableDescFrom(_, _)
StableDescFrom(s, I) ==
    IF I = {} THEN <<>>
    ELSE LET i == CHOOSE k \in I :
                    \A j \in I : s[j].val < s[k].val \/ (s[j].val = s[k].val /\ k <= j)
         IN  <<s[i]>> \o StableDescFrom(s, I \ {i})

\* Descending by value, equal values in their order in s (a mergesort).
StableDesc(s) == StableDescFrom(s, 1..Len(s))

\* Series.nlargest(n), keep='first'.  With n >= len(s) pandas returns
\* s.sort_values(ascending=False).head(n); otherwise it selects with a
\* stable sort, equal values in their order in s.
NLargest(s, n) ==
    IF n >= Len(s) THEN {Take(t, n) : t \in SortValuesDesc(s)}
    ELSE {Take(StableDesc(s), n)}

\* Series.value_counts(): the counts, sorted descending by sort_values.
ValueCounts(keys) == SortValuesDesc(CountByKey(keys))

(***************************************************************************)
(* pd.cut(df['Age'], bins, labels, right=True, include_lowest=True).       *)
(***************************************************************************)
bins == <<Num(0, 1), Num(19, 1), Num(29, 1), Num(39, 1), Num(49, 1), Inf>>

labels == <<"Below 20", "20s", "30s", "40s", "50+">>

\* Mutant of SearchSortedLeft: side='right', as with right=False.
SearchSortedRight(edges, x) ==
    Cardinality({i \in 1..Len(edges) : ~RatLess(x, edges[i])})

\* bins.searchsorted(x, side='left'): the number of edges below x.
SearchSortedLeft(edges, x) ==
    Cardinality({i \in 1..Len(edges) : RatLess(edges[i], x)})

\* The bracket of one Age cell: missing for a missing age and for an age
\* outside every interval (ids == 0 or ids == len(bins)).
Cut(age) ==
    IF IsNull(age) THEN NaN
    ELSE LET x == Num(age[1], 1)
             ids == IF x = bins[1] THEN 1 ELSE SearchSortedLeft(bins, x)
         IN  IF ids = 0 \/ ids = Len(bins) THEN NaN ELSE labels[ids]

\* df.groupby('Age_Group')['Purchase_Amount'].sum().reindex(labels): one row
\* per label in label order.  Age_Group is categorical: with observed=False
\* a bracket without rows sums to 0; with observed=True it is absent from
\* the groupby and reindex fills it with a missing value.
RevenueByAgeGroup(groups, vals, obs) ==
    [j \in 1..Len(labels) |->
        LET cells == GroupCells(groups, vals, labels[j])
        IN  [key |-> labels[j],
             val |-> IF obs /\ Len(cells) = 0 THEN Null ELSE Some(SumSeq(cells))]]

(***************************************************************************)
(* Resampling by a date index.                                             *)
(***************************************************************************)
RECURSIVE SortedDates(_)
SortedDates(S) ==
    IF S = {} THEN <<>>
    ELSE LET m == MinDate(S) IN <<m>> \o SortedDates(S \ {m})

RECURSIVE MonthEnds(_, _)
MonthEnds(from, to) ==
    IF DateLess(to, from) THEN <<>>
    ELSE <<from>> \o MonthEnds(NextMonthEnd(from), to)

RECURSIVE Days(_, _)
Days(from, to) ==
    IF DateLess(to, from) THEN <<>>
    ELSE <<from>> \o Days(NextDay(from), to)

\* Mutant of ResampleMonthSum: a groupby on the month, which has no row for
\* a month without rows.
GroupByMonthSum(dates, vals) ==
    LET ms == SortedDates({MonthEnd(dates[i]) : i \in 1..Len(dates)})
    IN  [j \in 1..Len(ms) |->
            [Transaction_Date |-> ms[j],
             Purchase_Amount |->
                SumSeq(Filter(vals, [i \in 1..Len(dates) |-> MonthEnd(dates[i]) = ms[j]]))]]

\* set_index('Transaction_Date').resample('ME')['Purchase_Amount'].sum():
\* one row per calendar month from the first to the last date, labelled by
\* the month's last day; a month without rows sums to 0.
ResampleMonthSum(dates, vals) ==
    LET S == Range(dates)
        ms == MonthEnds(MonthEnd(MinDate(S)), MonthEnd(MaxDate(S)))
    IN  [j \in 1..Len(ms) |->
            [Transaction_Date |-> ms[j],
             Purchase_Amount |->
                SumSeq(Filter(vals, [i \in 1..Len(dates) |-> MonthEnd(dates[i]) = ms[j]]))]]

\* set_index('Transaction_Date').resample('D')['Purchase_Amount'].mean()
\* .round(2): one row per day from the first to the last date; a day
\* without rows has mean nan.
ResampleDayMean(dates, vals) ==
    LET S == Range(dates)
        ds == Days(MinDate(S), MaxDate(S))
    IN  [j \in 1..Len(ds) |->
            [Day |-> ds[j],
             avg_daily_sales |->
                Round2(Mean(Filter(vals, [i \in 1..Len(dates) |-> dates[i] = ds[j]])))]]

\* df.groupby('Transaction_Date')['Purchase_Amount'].sum()
GroupByDateSum(dates, vals) ==
    LET ks == SortedDates(Range(dates))
    IN  [j \in 1..Len(ks) |->
            [key |-> ks[j],
             val |-> SumSeq(Filter(vals, [i \in 1..Len(dates) |-> dates[i] = ks[j]]))]]

(***************************************************************************)
(* Country share, lines 152-155.                                           *)
(***************************************************************************)
\* x * 100 on floats.
Times100(x) == IF x.kind = "num" THEN [x EXCEPT !.x100 = @ + 1] ELSE x

\* Mutant of CountryRevenueTotal: line 153 left out, total_revenue still the
\* total over all rows of line 34.
TotalOverAllRows(country_revenue) == locals["total_revenue"]

\* total_revenue = country_revenue.sum()                          (line 153)
CountryRevenueTotal(country_revenue) ==
    SumSeq([j \in 1..Len(country_revenue) |-> country_revenue[j].val])

\* (country_revenue / total_revenue * 100).round(2).reset_index()  (line 154)
CountryRevenuePercentage(country_revenue, total) ==
    [j \in 1..Len(country_revenue) |->
        [Country |-> country_revenue[j].key,
         Revenue_Percentage |-> Round2(Times100(Div(country_revenue[j].val, total)))]]

\* Whether ax.pie (line 157) raises on the shares in a matplotlib that
\* does not validate the wedge sizes: a wedge that starts at a nan angle
\* cannot be drawn (ValueError), and every wedge after one of nan size
\* starts at nan; the wedge of nan size itself is drawn empty.
PieRaisesAtWedge(country_revenue_percentage) ==
    \E j \in 1..(Len(country_revenue_percentage) - 1) :
        country_revenue_percentage[j].Revenue_Percentage.kind = "nan"

\* Whether ax.pie raises on the shares in a matplotlib that validates the
\* wedge sizes first (ValueError): some size is not finite, or the sizes
\* sum to 0, as those of no wedge at all do.
PieRaisesAtValidation(country_revenue_percentage) ==
    \/ \E j \in 1..Len(country_revenue_percentage) :
           country_revenue_percentage[j].Revenue_Percentage.kind # "num"
    \/ \A j \in 1..Len(country_revenue_percentage) :
           country_revenue_percentage[j].Revenue_Percentage.n = 0

(***************************************************************************)
(* Top 5 categories per country, lines 162-166.                            *)
(***************************************************************************)
\* df.groupby(['Country', 'Product_Category'])['Purchase_Amount'].sum()
\* .reset_index(), Country being categorical: one row per group in
\* (country, category) order.  With observed=False the groups are the whole
\* product of the countries and the categories of the table, a group
\* without rows summing to 0; with observed=True only the groups with rows.
GroupByCountryCategory(countries, cats, vals, obs) ==
    LET cs == GroupKeys(countries)
        ps == GroupKeys(cats)
        np == Len(ps)
        all == [k \in 1..(Len(cs) * np) |->
                   [Country |-> cs[((k - 1) \div np) + 1],
                    Product_Category |-> ps[((k - 1) % np) + 1]]]
        cells(g) == Filter(vals, [i \in 1..Len(vals) |->
                        countries[i] = g.Country /\ cats[i] = g.Product_Category])
        groups == Filter(all, [k \in 1..Len(all) |-> ~obs \/ Len(cells(all[k])) > 0])
    IN  [k \in 1..Len(groups) |->
            [Country |-> groups[k].Country,
             Product_Category |-> groups[k].Product_Category,
             Purchase_Amount |-> SumSeq(cells(groups[k]))]]

\* Mutant of RankInCountry: equal amounts ranked in reverse table order.
RankInCountryLastFirst(t, k) ==
    1 + Cardinality({j \in 1..Len(t) :
            /\ t[j].Country = t[k].Country
            /\ \/ t[j].Purchase_Amount > t[k].Purchase_Amount
               \/ t[j].Purchase_Amount = t[k].Purchase_Amount /\ j > k})

\* groupby('Country')['Purchase_Amount'].rank(method='first',
\* ascending=False) of row k of t: 1 + the rows of the same country that
\* have a larger amount, or an equal amount and an earlier position in t.
RankInCountry(t, k) ==
    1 + Cardinality({j \in 1..Len(t) :
            /\ t[j].Country = t[k].Country
            /\ \/ t[j].Purchase_Amount > t[k].Purchase_Amount
               \/ t[j].Purchase_Amount = t[k].Purchase_Amount /\ j < k})

\* ranked_sales with its rank_in_country column                   (line 164)
RankedSales(sums) ==
    [k \in 1..Len(sums) |->
        [Country |-> sums[k].Country,
         Product_Category |-> sums[k].Product_Category,
         Purchase_Amount |-> sums[k].Purchase_Amount,
         rank_in_country |-> RankInCountry(sums, k)]]

\* Mutant of KeepTopRanks: the cutoff off by one.
KeepTopRanksOffByOne(ranked) ==
    Filter(ranked, [k \in 1..Len(ranked) |-> ranked[k].rank_in_country <= 6])

\* ranked_sales[ranked_sales['rank_in_country'] <= 5]             (line 165)
KeepTopRanks(ranked) ==
    Filter(ranked, [k \in 1..Len(ranked) |-> ranked[k].rank_in_country <= 5])

RECURSIVE SortCountryAmountFrom(_, _)
SortCountryAmountFrom(t, I) ==
    IF I = {} THEN <<>>
    ELSE LET before(a, b) ==
                 \/ StrRank(t[a].Country) < StrRank(t[b].Country)
                 \/ /\ t[a].Country = t[b].Country
                    /\ \/ t[a].Purchase_Amount > t[b].Purchase_Amount
                       \/ t[a].Purchase_Amount = t[b].Purchase_Amount /\ a <= b
             i == CHOOSE a \in I : \A b \in I : before(a, b)
         IN  <<t[i]>> \o SortCountryAmountFrom(t, I \ {i})

\* sort_values(by=['Country', 'Purchase_Amount'], ascending=[True, False]):
\* a sort on several columns is a stable lexsort.                 (line 166)
SortCountryAmount(t) == SortCountryAmountFrom(t, 1..Len(t))

(***************************************************************************)
(* Month-over-month growth, lines 171-176.                                 *)
(***************************************************************************)
\* monthly_revenue_df with Previous_Month_Revenue (shift(1): missing in the
\* first row) and Growth_Rate_Percentage; a float operation on a missing
\* value is nan.
MonthlyRevenueDf(trend) ==
    [j \in 1..Len(trend) |->
        LET cur == trend[j].Purchase_Amount
            prev == IF j = 1 THEN Null ELSE Some(trend[j - 1].Purchase_Amount)
        IN  [Transaction_Date |-> trend[j].Transaction_Date,
             Purchase_Amount |-> cur,
             Previous_Month_Revenue |-> prev,
             Growth_Rate_Percentage |->
                IF IsNull(prev) THEN NaNf
                ELSE Times100(Div(cur - prev[1], prev[1]))]]

\* monthly_revenue_df.dropna(): the rows without a missing value or a nan
\* in any column; an infinite value is not missing.
DropNa(df) ==
    Filter(df, [j \in 1..Len(df) |->
        /\ ~IsNull(df[j].Previous_Month_Revenue)
        /\ df[j].Growth_Rate_Percentage.kind # "nan"])

(***************************************************************************)
(* CLV by country, lines 195-200.                                          *)
(***************************************************************************)
\* groupby('Country').agg(total_revenue=sum, unique_customers=nunique) with
\* CLV = total_revenue / unique_customers; nunique skips missing names.
ClvByCountry(countries, vals, users) ==
    LET ks == GroupKeys(countries)
    IN  [j \in 1..Len(ks) |->
            LET tr == SumSeq(GroupCells(countries, vals, ks[j]))
                uc == Cardinality(Range(GroupCells(countries, users, ks[j])) \ {NaN})
            IN  [Country |-> ks[j], total_revenue |-> tr,
                 unique_customers |-> uc, CLV |-> Div(tr, uc)]]

RECURSIVE DescOrdersClv(_, _)
DescOrdersClv(t, I) ==
    IF I = {} THEN {<<>>}
    ELSE LET top == {i \in I : \A j \in I : ~RatLess(t[i].CLV, t[j].CLV)}
         IN  UNION {{<<t[i]>> \o r : r \in DescOrdersClv(t, I \ {i})} : i \in top}

\* clv_by_country.sort_values('CLV', ascending=False): descending with the
\* nan rows last in their order in t; equal values in any order (quicksort).
SortByClvDesc(t) ==
    LET isnan == [j \in 1..Len(t) |-> t[j].CLV.kind = "nan"]
        nans == Filter(t, isnan)
    IN  {r \o nans : r \in DescOrdersClv(t, {j \in 1..Len(t) : ~isnan[j]})}

(***************************************************************************)
(* The handler, one action per step of perform_analytics_and_visualize.    *)
(***************************************************************************)
\* Whether sns.barplot raises on the frame it is given (ValueError): the
\* frame has no row and the installed seaborn does not draw an empty plot.
BarplotRaises(data) == barplot_rejects_empty /\ Len(data) = 0

\* df_transactions[name]
Col(name) == Column(df_columns, df_rows, name)

\* name = value
Bind(name, value) == (name :> value) @@ locals

\* A call on the presentation layer, with the data handed to it.
Call(widget, data) == [call |-> widget, data |-> data]

\* The dtype read_csv infers for a text column and for the Age column.
TextDtype(cells) == IF Range(cells) \subseteq {NaN} THEN "float64" ELSE "object"

AgeDtype(cells) == IF \E i \in 1..Len(cells) : IsNull(cells[i]) THEN "float64" ELSE "int64"

InferDtypes(rows) ==
    << "object", "int64",
       TextDtype([i \in 1..Len(rows) |-> rows[i][3]]),
       TextDtype([i \in 1..Len(rows) |-> rows[i][4]]),
       TextDtype([i \in 1..Len(rows) |-> rows[i][5]]),
       AgeDtype([i \in 1..Len(rows) |-> rows[i][6]]),
       TextDtype([i \in 1..Len(rows) |-> rows[i][7]]) >>

\* Whether pd.to_datetime can parse the date text <<year, month, day>>.
IsDate(text) ==
    /\ text[2] \in 1..12
    /\ text[3] \in 1..DaysInMonth(text[1], text[2])

\* pd.to_datetime of one date text.
ToDatetime(text) == [year |-> text[1], month |-> text[2], day |-> text[3]]

Init ==
    /\ pc = "read_csv"
    /\ file_exists \in BOOLEAN
    /\ observed \in BOOLEAN
    /\ barplot_rejects_empty \in BOOLEAN
    /\ df_columns = <<>>
    /\ df_dtypes = <<>>
    /\ df_rows = <<>>
    /\ locals = <<>>
    /\ emitted = <<>>

\* Lines 15-17: the file is there and read_csv returns its table.
ReadCsv ==
    /\ pc = "read_csv"
    /\ file_exists
    /\ \E header \in Headers, table \in Tables :
        /\ df_columns' = header
        /\ df_rows' = table
        /\ df_dtypes' = InferDtypes(table)
    /\ pc' = "columns"
    /\ UNCHANGED <<file_exists, observed, barplot_rejects_empty, locals, emitted>>

\* Mutant of FileNotFound: the return of line 21 left out.
FileNotFoundNoReturn ==
    /\ pc = "read_csv"
    /\ ~file_exists
    /\ emitted' = emitted \o <<Call("st.error", Null), Call("st.info", Null)>>
    /\ pc' = "columns"
    /\ UNCHANGED <<file_exists, observed, barplot_rejects_empty, df_columns, df_dtypes, df_rows, locals>>

\* Lines 18-21: read_csv raises FileNotFoundError; two messages, return.
FileNotFound ==
    /\ pc = "read_csv"
    /\ ~file_exists
    /\ emitted' = emitted \o <<Call("st.error", Null), Call("st.info", Null)>>
    /\ pc' = "done"
    /\ UNCHANGED <<file_exists, observed, barplot_rejects_empty, df_columns, df_dtypes, df_rows, locals>>

\* Line 24.
NormalizeColumns ==
    /\ pc = "columns"
    /\ df_columns' = [i \in 1..Len(df_columns) |-> NormalizeName(df_columns[i])]
    /\ pc' = "to_datetime"
    /\ UNCHANGED <<file_exists, observed, barplot_rejects_empty, df_dtypes, df_rows, locals, emitted>>

\* Line 25, every date text a calendar date.
ParseDates ==
    /\ pc = "to_datetime"
    /\ \A i \in 1..Len(df_rows) : IsDate(Col(Transaction_Date)[i])
    /\ LET c == ColIndex(df_columns, Transaction_Date)
       IN  /\ df_rows' = [i \in 1..Len(df_rows) |->
                            [df_rows[i] EXCEPT ![c] = ToDatetime(df_rows[i][c])]]
           /\ df_dtypes' = [df_dtypes EXCEPT ![c] = "datetime64[ns]"]
    /\ pc' = "title"
    /\ UNCHANGED <<file_exists, observed, barplot_rejects_empty, df_columns, locals, emitted>>

\* Line 25, some date text no calendar date: pd.to_datetime raises and the
\* exception leaves the handler.
ParseDatesRaises ==
    /\ pc = "to_datetime"
    /\ \E i \in 1..Len(df_rows) : ~IsDate(Col(Transaction_Date)[i])
    /\ pc' = "raised"
    /\ UNCHANGED <<file_exists, observed, barplot_rejects_empty, df_columns, df_dtypes, df_rows, locals, emitted>>

\* Lines 27-31.
Title ==
    /\ pc = "title"
    /\ emitted' = emitted \o
        <<Call("st.title", Null), Call("st.markdown", Null), Call("st.header", Null)>>
    /\ pc' = "kpis"
    /\ UNCHANGED <<file_exists, observed, barplot_rejects_empty, df_columns, df_dtypes, df_rows, locals>>

\* Lines 34-47: total revenue, average purchase value, transaction count.
Kpis ==
    /\ pc = "kpis"
    /\ LET total_revenue == Sum(Col(Purchase_Amount))
           avg_purchase_value == Mean(Col(Purchase_Amount))
           total_transactions == Len(df_rows)
       IN  /\ locals' = ("total_revenue" :> total_revenue)
                        @@ ("avg_purchase_value" :> avg_purchase_value)
                        @@ ("total_transactions" :> total_transactions)
                        @@ locals
           /\ emitted' = emitted \o
                <<Call("st.columns", 3),
                  Call("col1.metric", total_revenue),
                  Call("col2.metric", avg_purchase_value),
                  Call("col3.metric", total_transactions),
                  Call("st.divider", Null)>>
    /\ pc' = "revenue_by_category"
    /\ UNCHANGED <<file_exists, observed, barplot_rejects_empty, df_columns, df_dtypes, df_rows>>

\* Lines 52-61.
RevenueByCategory ==
    /\ pc = "revenue_by_category"
    /\ \E revenue_by_category \in
            SortValuesDesc(GroupBySum(Col(Product_Category), Col(Purchase_Amount))) :
        /\ ~BarplotRaises(revenue_by_category)
        /\ locals' = Bind("revenue_by_category", revenue_by_category)
        /\ emitted' = emitted \o
             <<Call("st.columns", 2),
               Call("st.subheader", Null), Call("st.pyplot", revenue_by_category)>>
    /\ pc' = "top_countries_revenue"
    /\ UNCHANGED <<file_exists, observed, barplot_rejects_empty, df_columns, df_dtypes, df_rows>>

\* Lines 52-57, no row has a category: revenue_by_category is bound without
\* rows, sns.barplot raises and the exception leaves the handler before
\* st.pyplot.
RevenueByCategoryBarplotRaises ==
    /\ pc = "revenue_by_category"
    /\ \E revenue_by_category \in
            SortValuesDesc(GroupBySum(Col(Product_Category), Col(Purchase_Amount))) :
        /\ BarplotRaises(revenue_by_category)
        /\ locals' = Bind("revenue_by_category", revenue_by_category)
        /\ emitted' = emitted \o <<Call("st.columns", 2), Call("st.subheader", Null)>>
    /\ pc' = "raised"
    /\ UNCHANGED <<file_exists, observed, barplot_rejects_empty, df_columns, df_dtypes, df_rows>>

\* Lines 63-73.
TopCountriesRevenue ==
    /\ pc = "top_countries_revenue"
    /\ \E top_countries_revenue \in
            NLargest(GroupBySum(Col(Country), Col(Purchase_Amount)), 5) :
        /\ ~BarplotRaises(top_countries_revenue)
        /\ locals' = Bind("top_countries_revenue", top_countries_revenue)
        /\ emitted' = emitted \o
             <<Call("st.subheader", Null), Call("st.pyplot", top_countries_revenue),
               Call("st.divider", Null)>>
    /\ pc' = "monthly_revenue"
    /\ UNCHANGED <<file_exists, observed, barplot_rejects_empty, df_columns, df_dtypes, df_rows>>

\* Lines 63-67, no row has a country: top_countries_revenue is bound without
\* rows, sns.barplot raises and the exception leaves the handler before
\* st.pyplot.
TopCountriesRevenueBarplotRaises ==
    /\ pc = "top_countries_revenue"
    /\ \E top_countries_revenue \in
            NLargest(GroupBySum(Col(Country), Col(Purchase_Amount)), 5) :
        /\ BarplotRaises(top_countries_revenue)
        /\ locals' = Bind("top_countries_revenue", top_countries_revenue)
        /\ emitted' = emitted \o <<Call("st.subheader", Null)>>
    /\ pc' = "raised"
    /\ UNCHANGED <<file_exists, observed, barplot_rejects_empty, df_columns, df_dtypes, df_rows>>

\* Lines 76-87.
MonthlyRevenue ==
    /\ pc = "monthly_revenue"
    /\ LET monthly_revenue == ResampleMonthSum(Col(Transaction_Date), Col(Purchase_Amount))
       IN  /\ locals' = Bind("monthly_revenue", monthly_revenue)
           /\ emitted' = emitted \o
                <<Call("st.columns", 2),
                  Call("st.subheader", Null), Call("st.pyplot", monthly_revenue)>>
    /\ pc' = "age_group"
    /\ UNCHANGED <<file_exists, observed, barplot_rejects_empty, df_columns, df_dtypes, df_rows>>

\* Lines 89-107: the Age_Group column is added to the working table, then
\* revenue by age group.
AgeGroup ==
    /\ pc = "age_group"
    /\ LET groups == [i \in 1..Len(df_rows) |-> Cut(Col(Age)[i])]
           revenue_by_age_group ==
               RevenueByAgeGroup(groups, Col(Purchase_Amount), observed)
       IN  /\ df_rows' = [i \in 1..Len(df_rows) |-> Append(df_rows[i], groups[i])]
           /\ df_columns' = Append(df_columns, Age_Group)
           /\ df_dtypes' = Append(df_dtypes, "category")
           /\ locals' = ("bins" :> bins) @@ ("labels" :> labels)
                        @@ Bind("revenue_by_age_group", revenue_by_age_group)
           /\ emitted' = emitted \o
                <<Call("st.subheader", Null), Call("st.pyplot", revenue_by_age_group),
                  Call("st.divider", Null), Call("st.header", Null), Call("st.tabs", Null)>>
    /\ pc' = "top_customers"
    /\ UNCHANGED <<file_exists, observed, barplot_rejects_empty>>

\* Lines 110-112.
TopCustomers ==
    /\ pc = "top_customers"
    /\ \E top_customers \in NLargest(GroupBySum(Col(User_Name), Col(Purchase_Amount)), 10) :
        /\ locals' = Bind("top_customers", top_customers)
        /\ emitted' = emitted \o
             <<Call("st.subheader", Null), Call("st.dataframe", top_customers)>>
    /\ pc' = "most_frequent_shoppers"
    /\ UNCHANGED <<file_exists, observed, barplot_rejects_empty, df_columns, df_dtypes, df_rows>>

\* Lines 114-117 (the columns User_Name, Order_Count are key, val here).
MostFrequentShoppers ==
    /\ pc = "most_frequent_shoppers"
    /\ \E counts \in ValueCounts(Col(User_Name)) :
       \E most_frequent_shoppers \in NLargest(counts, 10) :
        /\ locals' = Bind("most_frequent_shoppers", most_frequent_shoppers)
        /\ emitted' = emitted \o
             <<Call("st.subheader", Null), Call("st.dataframe", most_frequent_shoppers)>>
    /\ pc' = "avg_age"
    /\ UNCHANGED <<file_exists, observed, barplot_rejects_empty, df_columns, df_dtypes, df_rows>>

\* Lines 119-121: the mean of the ages that are not missing.
AverageAge ==
    /\ pc = "avg_age"
    /\ LET ages == Col(Age)
           present == Filter(ages, [i \in 1..Len(ages) |-> ~IsNull(ages[i])])
           avg_age == Mean([i \in 1..Len(present) |-> present[i][1]])
       IN  /\ locals' = Bind("avg_age", avg_age)
           /\ emitted' = emitted \o
                <<Call("st.subheader", Null), Call("st.metric", avg_age)>>
    /\ pc' = "daily_avg_sales"
    /\ UNCHANGED <<file_exists, observed, barplot_rejects_empty, df_columns, df_dtypes, df_rows>>

\* Lines 124-133.
DailyAverageSales ==
    /\ pc = "daily_avg_sales"
    /\ LET daily_avg_sales == ResampleDayMean(Col(Transaction_Date), Col(Purchase_Amount))
       IN  /\ locals' = Bind("daily_avg_sales", daily_avg_sales)
           /\ emitted' = emitted \o
                <<Call("st.subheader", Null), Call("st.pyplot", daily_avg_sales)>>
    /\ pc' = "revenue_by_payment_method"
    /\ UNCHANGED <<file_exists, observed, barplot_rejects_empty, df_columns, df_dtypes, df_rows>>

\* Lines 135-143.
RevenueByPaymentMethod ==
    /\ pc = "revenue_by_payment_method"
    /\ \E revenue_by_payment_method \in
            SortValuesDesc(GroupBySum(Col(Payment_Method), Col(Purchase_Amount))) :
        /\ ~BarplotRaises(revenue_by_payment_method)
        /\ locals' = Bind("revenue_by_payment_method", revenue_by_payment_method)
        /\ emitted' = emitted \o
             <<Call("st.subheader", Null), Call("st.pyplot", revenue_by_payment_method)>>
    /\ pc' = "peak_shopping_day"
    /\ UNCHANGED <<file_exists, observed, barplot_rejects_empty, df_columns, df_dtypes, df_rows>>

\* Lines 135-138, no row has a payment method: revenue_by_payment_method is
\* bound without rows, sns.barplot raises and the exception leaves the
\* handler before st.pyplot.
RevenueByPaymentMethodBarplotRaises ==
    /\ pc = "revenue_by_payment_method"
    /\ \E revenue_by_payment_method \in
            SortValuesDesc(GroupBySum(Col(Payment_Method), Col(Purchase_Amount))) :
        /\ BarplotRaises(revenue_by_payment_method)
        /\ locals' = Bind("revenue_by_payment_method", revenue_by_payment_method)
        /\ emitted' = emitted \o <<Call("st.subheader", Null)>>
    /\ pc' = "raised"
    /\ UNCHANGED <<file_exists, observed, barplot_rejects_empty, df_columns, df_dtypes, df_rows>>

\* Lines 145-148.
PeakShoppingDay ==
    /\ pc = "peak_shopping_day"
    /\ \E peak_shopping_day \in
            NLargest(GroupByDateSum(Col(Transaction_Date), Col(Purchase_Amount)), 1) :
        /\ locals' = Bind("peak_shopping_day", peak_shopping_day)
        /\ emitted' = emitted \o
             <<Call("st.subheader", Null),
               Call("st.metric", peak_shopping_day[1].key),
               Call("st.metric", peak_shopping_day[1].val)>>
    /\ pc' = "country_revenue_percentage"
    /\ UNCHANGED <<file_exists, observed, barplot_rejects_empty, df_columns, df_dtypes, df_rows>>

\* Lines 151-159: total_revenue is bound again, to the sum over countries.
\* The pie is drawn unless every matplotlib raises on the shares.
CountryShare ==
    /\ pc = "country_revenue_percentage"
    /\ LET country_revenue == GroupBySum(Col(Country), Col(Purchase_Amount))
           total_revenue == CountryRevenueTotal(country_revenue)
           country_revenue_percentage ==
               CountryRevenuePercentage(country_revenue, total_revenue)
       IN  /\ ~PieRaisesAtWedge(country_revenue_percentage)
           /\ locals' = ("country_revenue" :> country_revenue)
                        @@ ("total_revenue" :> total_revenue)
                        @@ ("country_revenue_percentage" :> country_revenue_percentage)
                        @@ locals
           /\ emitted' = emitted \o
                <<Call("st.subheader", Null), Call("st.pyplot", country_revenue_percentage)>>
    /\ pc' = "top_categories_by_country"
    /\ UNCHANGED <<file_exists, observed, barplot_rejects_empty, df_columns, df_dtypes, df_rows>>

\* Lines 151-157, the shares being nan or none: the three locals are
\* bound, then ax.pie raises (in some matplotlib, or in every one when a
\* wedge follows a nan) and the exception leaves the handler before
\* st.pyplot.
CountrySharePieRaises ==
    /\ pc = "country_revenue_percentage"
    /\ LET country_revenue == GroupBySum(Col(Country), Col(Purchase_Amount))
           total_revenue == CountryRevenueTotal(country_revenue)
           country_revenue_percentage ==
               CountryRevenuePercentage(country_revenue, total_revenue)
       IN  /\ \/ PieRaisesAtWedge(country_revenue_percentage)
              \/ PieRaisesAtValidation(country_revenue_percentage)
           /\ locals' = ("country_revenue" :> country_revenue)
                        @@ ("total_revenue" :> total_revenue)
                        @@ ("country_revenue_percentage" :> country_revenue_percentage)
                        @@ locals
           /\ emitted' = emitted \o <<Call("st.subheader", Null)>>
    /\ pc' = "raised"
    /\ UNCHANGED <<file_exists, observed, barplot_rejects_empty, df_columns, df_dtypes, df_rows>>

\* Lines 161-167: the Country column is cast to a categorical in place, then
\* the ranking.
TopCategoriesByCountry ==
    /\ pc = "top_categories_by_country"
    /\ LET ranked_sales ==
               RankedSales(GroupByCountryCategory(Col(Country), Col(Product_Category),
                                                  Col(Purchase_Amount), observed))
           top_categories_by_country == SortCountryAmount(KeepTopRanks(ranked_sales))
       IN  /\ df_dtypes' = [df_dtypes EXCEPT ![ColIndex(df_columns, Country)] = "category"]
           /\ locals' = ("ranked_sales" :> ranked_sales)
                        @@ Bind("top_categories_by_country", top_categories_by_country)
           /\ emitted' = emitted \o
                <<Call("st.subheader", Null),
                  Call("st.dataframe", top_categories_by_country)>>
    /\ pc' = "growth_rate"
    /\ UNCHANGED <<file_exists, observed, barplot_rejects_empty, df_columns, df_rows>>

\* Lines 170-181: the growth series handed to the line plot is
\* monthly_revenue_df.dropna().
GrowthRate ==
    /\ pc = "growth_rate"
    /\ LET monthly_revenue_trend ==
               ResampleMonthSum(Col(Transaction_Date), Col(Purchase_Amount))
           monthly_revenue_df == MonthlyRevenueDf(monthly_revenue_trend)
       IN  /\ locals' = ("monthly_revenue_trend" :> monthly_revenue_trend)
                        @@ Bind("monthly_revenue_df", monthly_revenue_df)
           /\ emitted' = emitted \o
                <<Call("st.subheader", Null), Call("st.pyplot", DropNa(monthly_revenue_df))>>
    /\ pc' = "most_popular_categories"
    /\ UNCHANGED <<file_exists, observed, barplot_rejects_empty, df_columns, df_dtypes, df_rows>>

\* Lines 183-192 (the columns Product_Category, Transaction_Count are key,
\* val here).  The frame has a row whenever revenue_by_category had one, so
\* a barplot that raises on no rows has raised at line 57.
MostPopularCategories ==
    /\ pc = "most_popular_categories"
    /\ \E counts \in ValueCounts(Col(Product_Category)) :
       \E most_popular_categories \in NLargest(counts, 5) :
        /\ locals' = Bind("most_popular_categories", most_popular_categories)
        /\ emitted' = emitted \o
             <<Call("st.subheader", Null), Call("st.pyplot", most_popular_categories)>>
    /\ pc' = "clv_by_country"
    /\ UNCHANGED <<file_exists, observed, barplot_rejects_empty, df_columns, df_dtypes, df_rows>>

\* Lines 194-206.  The frame has a row whenever top_countries_revenue had
\* one, so a barplot that raises on no rows has raised at line 67.
ClvByCountryStep ==
    /\ pc = "clv_by_country"
    /\ \E clv_by_country \in
            SortByClvDesc(ClvByCountry(Col(Country), Col(Purchase_Amount), Col(User_Name))) :
        /\ locals' = Bind("clv_by_country", clv_by_country)
        /\ emitted' = emitted \o
             <<Call("st.subheader", Null), Call("st.pyplot", clv_by_country)>>
    /\ pc' = "done"
    /\ UNCHANGED <<file_exists, observed, barplot_rejects_empty, df_columns, df_dtypes, df_rows>>

Next ==
    \/ ReadCsv
    \/ FileNotFound
    \/ NormalizeColumns
    \/ ParseDates
    \/ ParseDatesRaises
    \/ Title
    \/ Kpis
    \/ RevenueByCategory
    \/ RevenueByCategoryBarplotRaises
    \/ TopCountriesRevenue
    \/ TopCountriesRevenueBarplotRaises
    \/ MonthlyRevenue
    \/ AgeGroup
    \/ TopCustomers
    \/ MostFrequentShoppers
    \/ AverageAge
    \/ DailyAverageSales
    \/ RevenueByPaymentMethod
    \/ RevenueByPaymentMethodBarplotRaises
    \/ PeakShoppingDay
    \/ CountryShare
    \/ CountrySharePieRaises
    \/ TopCategoriesByCountry
    \/ GrowthRate
    \/ MostPopularCategories
    \/ ClvByCountryStep

Spec == Init /\ [][Next]_vars

(***************************************************************************)
(* Properties.                                                             *)
(***************************************************************************)
Bound(name) == name \in DOMAIN locals

\* The position of the first row of the table whose cell in column `name`
\* is `key`.
FirstRow(name, key) ==
    CHOOSE i \in 1..Len(df_rows) :
        /\ Col(name)[i] = key
        /\ \A j \in 1..(i - 1) : Col(name)[j] # key

SumVals(t) == SumSeq([j \in 1..Len(t) |-> t[j].val])

\* val is non-increasing along the two-column table t.
NonIncreasing(t) == \A j \in 1..(Len(t) - 1) : t[j].val >= t[j + 1].val

\* Descending, and groups of equal revenue in the order of their first rows
\* in the input table.
DescendingTiesByFirstRow(t, name) ==
    \A j \in 1..(Len(t) - 1) :
        \/ t[j].val > t[j + 1].val
        \/ /\ t[j].val = t[j + 1].val
           /\ FirstRow(name, t[j].key) < FirstRow(name, t[j + 1].key)

\* C1: right after revenue by category is computed, total revenue equals the
\* sum of the per-category sums (grouping drops no row and counts none
\* twice), whatever the categories, a missing category included.
C1_TotalIsSumOfCategories ==
    pc = "top_countries_revenue" =>
        locals["total_revenue"] = SumVals(locals["revenue_by_category"])

\* The bracket the data model gives an age: Below 20 up to 19, 20s for
\* 20-29, 30s for 30-39, 40s for 40-49, 50+ from 50.
BracketOf(age) ==
    IF age <= 19 THEN "Below 20"
    ELSE IF age <= 29 THEN "20s"
    ELSE IF age <= 39 THEN "30s"
    ELSE IF age <= 49 THEN "40s"
    ELSE "50+"

HasAgeGroup == Len(df_columns) > 0 /\ df_columns[Len(df_columns)] = Age_Group

\* C2 as stated: once Age_Group is derived, every row with a non-null age
\* carries one of the five brackets, the one of the data model (every age of
\* 19 or less in Below 20).
C2_EveryAgeHasItsBracket ==
    HasAgeGroup =>
        \A i \in 1..Len(df_rows) :
            ~IsNull(Col(Age)[i]) =>
                /\ Col(Age_Group)[i] \in Range(labels)
                /\ Col(Age_Group)[i] = BracketOf(Col(Age)[i][1])

\* C2 amended: once Age_Group is derived, every row with a non-null age of
\* 0 or more carries exactly the bracket of the data model: 0..19 Below 20,
\* 20..29 20s, 30..39 30s, 40..49 40s, 50 and up 50+.
C2_NonNegativeAgeHasItsBracket ==
    HasAgeGroup =>
        \A i \in 1..Len(df_rows) :
            (~IsNull(Col(Age)[i]) /\ Col(Age)[i][1] >= 0) =>
                /\ Col(Age_Group)[i] \in Range(labels)
                /\ Col(Age_Group)[i] = BracketOf(Col(Age)[i][1])

\* C2 witness: the bracket step has run on a table with the boundary age 50.
C2_Witness ==
    /\ HasAgeGroup
    /\ \E i \in 1..Len(df_rows) : Col(Age)[i] = Some(50) /\ Col(Age_Group)[i] = "50+"

\* The calendar month of a date, counted in months.
MonthIdx(t) == t.year * 12 + t.month

\* The calendar months with at least one row.
MonthsWithRows == {MonthIdx(Col(Transaction_Date)[i]) : i \in 1..Len(df_rows)}

FirstMonth == CHOOSE m \in MonthsWithRows : \A k \in MonthsWithRows : m <= k

LastMonth == CHOOSE m \in MonthsWithRows : \A k \in MonthsWithRows : k <= m

\* The revenue of calendar month m, from the rows.
RevenueOfMonth(m) ==
    SumSeq(Filter(Col(Purchase_Amount),
                  [i \in 1..Len(df_rows) |-> MonthIdx(Col(Transaction_Date)[i]) = m]))

\* The growth series handed to the line plot, in the state right after the
\* growth step.
GrowthPlotted == emitted[Len(emitted)].data

\* C3 as stated: the plotted growth series leaves out the first month and has
\* (number of calendar months with at least one row) - 1 rows.
C3_RowsAreMonthsWithRowsLessOne ==
    pc = "most_popular_categories" =>
        /\ Len(GrowthPlotted) = Cardinality(MonthsWithRows) - 1
        /\ \A j \in 1..Len(GrowthPlotted) :
              MonthIdx(GrowthPlotted[j].Transaction_Date) # FirstMonth

\* C3 amended: the plotted growth series leaves out the first month and has
\* one row for every later calendar month up to the last month with a row,
\* months without rows included, except the months whose revenue and whose
\* previous month's revenue are both 0.
C3_RowsAreSpanLessOne ==
    pc = "most_popular_categories" =>
        /\ Len(GrowthPlotted) =
              (LastMonth - FirstMonth)
              - Cardinality({m \in (FirstMonth + 1)..LastMonth :
                                RevenueOfMonth(m) = 0 /\ RevenueOfMonth(m - 1) = 0})
        /\ \A j \in 1..Len(GrowthPlotted) :
              MonthIdx(GrowthPlotted[j].Transaction_Date) # FirstMonth

\* C3 witness: the growth series of a table whose months with rows are not
\* consecutive.
C3_Witness ==
    /\ pc = "most_popular_categories"
    /\ Cardinality(MonthsWithRows) < LastMonth - FirstMonth + 1
    /\ Len(GrowthPlotted) = 2

\* The rows of t for country c.
RowsOfCountry(t, c) == Filter(t, [k \in 1..Len(t) |-> t[k].Country = c])

\* C4: the top-5-categories-per-country table has at most 5 rows for each
\* country, its rows are in ascending country order, and within a country in
\* non-increasing order of summed revenue.
C4_TopFivePerCountry ==
    Bound("top_categories_by_country") =>
        LET t == locals["top_categories_by_country"]
        IN  /\ \A k \in 1..Len(t) : Len(RowsOfCountry(t, t[k].Country)) <= 5
            /\ \A k \in 1..(Len(t) - 1) :
                  \/ StrRank(t[k].Country) < StrRank(t[k + 1].Country)
                  \/ /\ t[k].Country = t[k + 1].Country
                     /\ t[k].Purchase_Amount >= t[k + 1].Purchase_Amount

\* C4 witness: a country with more than 5 ranked categories, 5 of them kept.
C4_Witness ==
    /\ Bound("top_categories_by_country")
    /\ \E k \in 1..Len(locals["ranked_sales"]) :
          LET c == locals["ranked_sales"][k].Country
          IN  /\ Len(RowsOfCountry(locals["ranked_sales"], c)) > 5
              /\ Len(RowsOfCountry(locals["top_categories_by_country"], c)) = 5

\* C5 as stated: revenue by category and the top-5 countries are each sorted
\* descending by summed revenue, groups of equal revenue in input order (the
\* group whose first row comes earlier first).
C5_DescendingTiesInInputOrder ==
    Bound("top_countries_revenue") =>
        /\ DescendingTiesByFirstRow(locals["revenue_by_category"], Product_Category)
        /\ DescendingTiesByFirstRow(locals["top_countries_revenue"], Country)

\* The countries of the working table.
CountriesOfTable == Range(Col(Country)) \ {NaN}

\* Rows of equal val next to each other in t are in ascending order of key.
TiesByName(t) ==
    \A j \in 1..(Len(t) - 1) :
        t[j].val = t[j + 1].val => StrRank(t[j].key) < StrRank(t[j + 1].key)

\* Rows of equal val next to each other in t.
HasTie(t) == \E j \in 1..(Len(t) - 1) : t[j].val = t[j + 1].val

\* C5 amended: revenue by category and the top-5 countries are each sorted in
\* non-increasing order of summed revenue, and when the table has more than
\* five countries, countries of equal revenue in the top-5 table are in
\* ascending order of country name.
C5_NonIncreasing ==
    Bound("top_countries_revenue") =>
        /\ NonIncreasing(locals["revenue_by_category"])
        /\ NonIncreasing(locals["top_countries_revenue"])
        /\ (Cardinality(CountriesOfTable) > 5
               => TiesByName(locals["top_countries_revenue"]))

\* C5 witness: six countries cut to five with countries of equal revenue
\* among the five, and two categories of equal revenue.
C5_Witness ==
    /\ Bound("top_countries_revenue")
    /\ Cardinality(CountriesOfTable) > 5
    /\ Len(locals["top_countries_revenue"]) = 5
    /\ HasTie(locals["top_countries_revenue"])
    /\ Len(locals["revenue_by_category"]) = 2
    /\ HasTie(locals["revenue_by_category"])

\* C6: with no file at file_path the handler shows its two messages and
\* returns; the header is never normalised, no aggregate is computed and
\* nothing else is handed to the presentation layer.
C6_FileNotFoundStops ==
    ~file_exists =>
        /\ pc \in {"read_csv", "done"}
        /\ df_columns = <<>> /\ df_rows = <<>> /\ df_dtypes = <<>>
        /\ DOMAIN locals = {}
        /\ pc = "read_csv" => emitted = <<>>
        /\ pc = "done" => [j \in 1..Len(emitted) |-> emitted[j].call] = <<"st.error", "st.info">>

\* C6 witness: the handler has returned after the missing-file messages.
C6_Witness == ~file_exists /\ pc = "done" /\ Len(emitted) = 2

\* The sum of the country percentages, in hundredths of a percent.
ShareSum(t) == SumSeq([j \in 1..Len(t) |-> Hundredths(t[j].Revenue_Percentage)])

\* Every percentage is a number and their sum is within 0.1 per country of
\* 100.
SharesSumTo100(t) ==
    /\ \A j \in 1..Len(t) : t[j].Revenue_Percentage.kind = "num"
    /\ Abs(ShareSum(t) - 10000) <= 10 * Len(t)

\* The revenue of the rows that have a country.
RevenueWithCountry ==
    SumSeq(Filter(Col(Purchase_Amount), [i \in 1..Len(df_rows) |-> Col(Country)[i] # NaN]))

\* C7 as stated: for every table with at least one row the country
\* percentages sum to 100 within 0.1 per country.
C7_SharesSumTo100 ==
    Bound("country_revenue_percentage") =>
        SharesSumTo100(locals["country_revenue_percentage"])

\* C7 amended: for every table in which the revenue of the rows that have a
\* country is not 0, the country percentages sum to 100 within 0.1 per
\* country; when that revenue is 0, no percentage is a finite number.
C7_SharesSumTo100WhenRevenue ==
    Bound("country_revenue_percentage") =>
        LET t == locals["country_revenue_percentage"]
        IN  IF RevenueWithCountry # 0 THEN SharesSumTo100(t)
            ELSE \A j \in 1..Len(t) : t[j].Revenue_Percentage.kind # "num"

\* C7 witness: three countries of one third each, the rounded percentages
\* summing to 99.99.
C7_Witness ==
    /\ Bound("country_revenue_percentage")
    /\ RevenueWithCountry # 0
    /\ Len(locals["country_revenue_percentage"]) = 3
    /\ ShareSum(locals["country_revenue_percentage"]) = 9999

\* C8: no month whose previous month's revenue is 0 is in the growth series
\* handed to the plot, and no country with 0 distinct customers is in the
\* CLV table handed to the plot (the code has no flag column, so an entry
\* with a zero divisor can only be filtered).
C8_ZeroDivisorFiltered ==
    /\ pc = "most_popular_categories" =>
          \A j \in 1..Len(GrowthPlotted) :
              GrowthPlotted[j].Previous_Month_Revenue # Some(0)
    /\ Bound("clv_by_country") =>
          \A j \in 1..Len(locals["clv_by_country"]) :
              locals["clv_by_country"][j].unique_customers # 0

\* C9: from the first aggregate on, no step changes the rows, the columns or
\* the dtypes of the working table that exist before it, nor a local bound
\* before it; only the age-bracket step changes the working table at all.
C9_AggregatesChangeNothing ==
    [][pc \notin {"read_csv", "columns", "to_datetime"} =>
        /\ Len(df_rows') = Len(df_rows)
        /\ \A i \in 1..Len(df_rows) : \A c \in 1..Len(df_columns) :
              df_rows'[i][c] = df_rows[i][c]
        /\ \A c \in 1..Len(df_columns) :
              df_columns'[c] = df_columns[c] /\ df_dtypes'[c] = df_dtypes[c]
        /\ \A n \in DOMAIN locals : n \in DOMAIN locals' /\ locals'[n] = locals[n]
        /\ pc # "age_group" => <<df_rows, df_columns, df_dtypes>>' = <<df_rows, df_columns, df_dtypes>>
      ]_vars

\* Rows a and b of ranked_sales are two categories of one country with
\* equal summed revenue.
Tied(t, a, b) ==
    /\ a # b
    /\ t[a].Country = t[b].Country
    /\ t[a].Purchase_Amount = t[b].Purchase_Amount

\* The position of the first row of the table for country c and category p,
\* 0 if there is none.
FirstRowOfGroup(c, p) ==
    LET I == {i \in 1..Len(df_rows) : Col(Country)[i] = c /\ Col(Product_Category)[i] = p}
    IN  IF I = {} THEN 0 ELSE CHOOSE i \in I : \A j \in I : i <= j

\* C10 as stated: of two categories of a country with equal summed revenue,
\* the one whose first row comes earlier in the input has the better rank.
C10_TieByFirstRow ==
    Bound("ranked_sales") =>
        LET t == locals["ranked_sales"]
        IN  \A a, b \in 1..Len(t) :
                LET fa == FirstRowOfGroup(t[a].Country, t[a].Product_Category)
                    fb == FirstRowOfGroup(t[b].Country, t[b].Product_Category)
                IN  (Tied(t, a, b) /\ fa > 0 /\ fb > 0 /\ fa < fb) =>
                        t[a].rank_in_country < t[b].rank_in_country

\* Row r of ranked_sales is in the top-5 table.
Kept(r) ==
    \E k \in 1..Len(locals["top_categories_by_country"]) :
        locals["top_categories_by_country"][k] = r

\* C10 amended: of two categories of a country with equal summed revenue,
\* the one whose name sorts first (the earlier row of the grouped table) has
\* the better rank, and the top-5 table keeps exactly the ranks up to 5, so
\* at the cutoff the category whose name sorts first is the one kept.
C10_TieByCategoryName ==
    Bound("ranked_sales") =>
        LET t == locals["ranked_sales"]
        IN  /\ \A a, b \in 1..Len(t) :
                  (Tied(t, a, b)
                   /\ StrRank(t[a].Product_Category) < StrRank(t[b].Product_Category)) =>
                        t[a].rank_in_country < t[b].rank_in_country
            /\ \A a \in 1..Len(t) : Kept(t[a]) <=> t[a].rank_in_country <= 5

\* C10 witness: a tie at the cutoff; the category ranked 5 is kept, the one
\* ranked 6 is not, although its first row comes earlier in the input.
C10_Witness ==
    /\ Bound("ranked_sales")
    /\ \E a, b \in 1..Len(locals["ranked_sales"]) :
          LET t == locals["ranked_sales"]
          IN  /\ Tied(t, a, b)
              /\ t[a].rank_in_country = 5 /\ t[b].rank_in_country = 6
              /\ Kept(t[a]) /\ ~Kept(t[b])
              /\ FirstRowOfGroup(t[b].Country, t[b].Product_Category) > 0
              /\ FirstRowOfGroup(t[b].Country, t[b].Product_Category)
                    < FirstRowOfGroup(t[a].Country, t[a].Product_Category)

====
